---- MODULE Spec2Model ----
(***************************************************************************)
(* Model of frontend/src/App.tsx.                                          *)
(*                                                                         *)
(* The upload controller: the file chooser (handleFileChange), the submit  *)
(* handler (handleSubmit) with its three suspension points (fetch, the     *)
(* error body, the blob), the error classification and the download it     *)
(* triggers. The cursor trail: the pointer handlers, the animation frame   *)
(* loop of the second effect and its cleanup.                              *)
(*                                                                         *)
(* Text is a sequence of chunks (TLA+ strings): the characters that the    *)
(* code inspects (extension letters, blanks, quotes) are chunks of their   *)
(* own, so that toLowerCase, endsWith, trim, split and replace are         *)
(* computed on them; the empty string is << >>.                            *)
(*                                                                         *)
(* Coordinates are integers in hundredths of a pixel and opacities in      *)
(* ten-thousandths; a product with an easing factor is rounded to the      *)
(* nearest unit, as the double arithmetic of the code rounds its results.  *)
(***************************************************************************)
EXTENDS Integers, Sequences, FiniteSets, TLC

VARIABLES
  selectedFile,    \* useState<File | null>
  state,           \* useState<UploadState>
  error,           \* useState<UploadError | null>
  successMessage,  \* useState<string | null>
  inputValue,      \* the file held by the <input type="file"> control
  handlers,        \* the handleSubmit invocations suspended at an await
  issued,          \* number of fetch() calls made so far
  downloads,       \* the downloads triggered so far (anchor.click())
  last,            \* the last event delivered and its inputs
  mounted,         \* the component is mounted
  trailTarget,     \* trailTargetRef.current
  animationRef,    \* animationRef.current (0: undefined)
  pendingFrames,   \* the frame requests neither run nor cancelled
  frameCount,      \* number of requestAnimationFrame() calls made so far
  trail,           \* useState: the trail chain
  lastFrame        \* the last run of animate: the chain and the target it read

uploadVars == <<selectedFile, state, error, successMessage, inputValue,
                handlers, issued, downloads, last>>

trailVars == <<mounted, trailTarget, animationRef, pendingFrames, frameCount,
               trail, lastFrame>>

vars == <<uploadVars, trailVars>>

\* Number of requests one run of the model may issue.
MaxRequests == 2

\* Number of frame requests one run of the model may make.
MaxFrames == 4

\* JavaScript null / undefined.
null == [null |-> TRUE]

MAX_FILE_SIZE == 15 * 1024 * 1024

TRAIL_LENGTH == 6

-----------------------------------------------------------------------------
(* String helpers *)

LowerChar(c) ==
  CASE c = "X" -> "x" [] c = "M" -> "m" [] c = "L" -> "l" [] c = "B" -> "b"
    [] c = "R" -> "r" [] c = "P" -> "p" [] c = "D" -> "d" [] c = "F" -> "f"
    [] OTHER -> c

toLowerCase(s) == [i \in DOMAIN s |-> LowerChar(s[i])]

endsWith(s, suffix) ==
  /\ Len(suffix) <= Len(s)
  /\ SubSeq(s, Len(s) - Len(suffix) + 1, Len(s)) = suffix

IsSpace(c) == c \in {" ", "\n"}

RECURSIVE trimStart(_)
trimStart(s) ==
  IF s # << >> /\ IsSpace(Head(s)) THEN trimStart(Tail(s)) ELSE s

RECURSIVE trimEnd(_)
trimEnd(s) ==
  IF s # << >> /\ IsSpace(s[Len(s)]) THEN trimEnd(SubSeq(s, 1, Len(s) - 1)) ELSE s

trim(s) == trimEnd(trimStart(s))

\* s.includes(chunk)
includes(s, chunk) == \E i \in DOMAIN s : s[i] = chunk

\* Two decimal digits of a toFixed(2) fraction.
Pad2(n) == IF n < 10 THEN "0" \o ToString(n) ELSE ToString(n)

RECURSIVE Pow(_, _)
Pow(b, e) == IF e = 0 THEN 1 ELSE b * Pow(b, e - 1)

\* Math.floor(Math.log(bytes) / Math.log(1024)) for bytes >= 1
RECURSIVE Log1024(_)
Log1024(bytes) == IF bytes < 1024 THEN 0 ELSE 1 + Log1024(bytes \div 1024)

formatBytes(bytes) ==
  IF bytes = 0 THEN <<"0", " ", "B">>
  ELSE LET i      == Log1024(bytes)
           unit   == Pow(1024, i)
           sizes  == <<"B", "KB", "MB", "GB">>
           hund   == ((bytes % unit) * 100 + unit \div 2) \div unit
           whole  == bytes \div unit + (IF hund = 100 THEN 1 ELSE 0)
           frac   == IF hund = 100 THEN 0 ELSE hund
       IN  <<ToString(whole), ".", Pad2(frac), " ", sizes[i + 1]>>

-----------------------------------------------------------------------------
(* The files a user can pick *)

XmlExts ==
  { <<".", "x", "m", "l">>, <<".", "X", "M", "L">>, <<".", "x", "M", "l">> }

XbrlExts ==
  { <<".", "x", "b", "r", "l">>, <<".", "X", "B", "R", "L">>, <<".", "X", "b", "R", "l">> }

OtherExts ==
  { <<".", "p", "d", "f">>, << >>, <<"x", "m", "l">>,
    <<".", "x", "m", "l", ".", "p", "d", "f">>, <<".", "x", "m", "l", "x">> }

FileNames == {<<"report">> \o ext : ext \in XmlExts \cup XbrlExts \cup OtherExts}

FileSizes == {1, MAX_FILE_SIZE, MAX_FILE_SIZE + 1}

Files == [name : FileNames, size : FileSizes]

-----------------------------------------------------------------------------
(* Messages *)

MsgBadExtension == <<"Only .xml or .xbrl files are supported.">>
MsgTooLarge     == <<"File exceeds the ">> \o formatBytes(MAX_FILE_SIZE) \o <<" limit.">>
MsgNoFile       == <<"Please choose an XBRL file before uploading.">>
MsgSuccess      == <<"Excel workbook downloaded successfully.">>
MsgUnexpected   == <<"Unexpected error occurred.">>

UploadError(message) == [message |-> message]

-----------------------------------------------------------------------------
(* handleFileChange *)

\* Variant: the extension may stand anywhere in the name.
HasSupportedExtension_Anywhere(file) ==
  \E k \in 0..Len(file.name) :
    \/ endsWith(SubSeq(toLowerCase(file.name), 1, k), <<".", "x", "m", "l">>)
    \/ endsWith(SubSeq(toLowerCase(file.name), 1, k), <<".", "x", "b", "r", "l">>)

HasSupportedExtension(file) ==
  \/ endsWith(toLowerCase(file.name), <<".", "x", "m", "l">>)
  \/ endsWith(toLowerCase(file.name), <<".", "x", "b", "r", "l">>)

\* Variant: the limit itself is refused.
WithinSizeLimit_Strict(file) == file.size < MAX_FILE_SIZE

WithinSizeLimit(file) == ~(file.size > MAX_FILE_SIZE)

\* The record of a choose event: the file, UploadState before it, and
\* whether the event before it was a choose of the same file.
ChooseEvent(file) ==
  [op |-> "choose", file |-> file, before |-> state,
   repeat |-> (last.op = "choose" /\ last.file = file)]

\* <input type="file" disabled={state === "uploading"}>
ChooseEnabled == state # "uploading"

\* Variant: a choice resets the workflow to idle.
handleFileChange_ResetsIdle(file) ==
  /\ ChooseEnabled
  /\ successMessage' = null
  /\ state' = "idle"
  /\ IF file = null
       THEN /\ error' = null
            /\ selectedFile' = null
            /\ inputValue' = null
       ELSE IF ~HasSupportedExtension(file)
       THEN /\ error' = UploadError(MsgBadExtension)
            /\ inputValue' = null
            /\ UNCHANGED selectedFile
       ELSE IF ~WithinSizeLimit(file)
       THEN /\ error' = UploadError(MsgTooLarge)
            /\ inputValue' = null
            /\ UNCHANGED selectedFile
       ELSE /\ error' = null
            /\ selectedFile' = file
            /\ inputValue' = file
  /\ last' = ChooseEvent(file)
  /\ UNCHANGED <<handlers, issued, downloads>>

\* Variant: choosing the file that is already selected unselects it.
handleFileChange_Toggles(file) ==
  /\ ChooseEnabled
  /\ successMessage' = null
  /\ IF file = null \/ file = selectedFile
       THEN /\ error' = null
            /\ selectedFile' = null
            /\ inputValue' = null
       ELSE IF ~HasSupportedExtension(file)
       THEN /\ error' = UploadError(MsgBadExtension)
            /\ inputValue' = null
            /\ UNCHANGED selectedFile
       ELSE IF ~WithinSizeLimit(file)
       THEN /\ error' = UploadError(MsgTooLarge)
            /\ inputValue' = null
            /\ UNCHANGED selectedFile
       ELSE /\ error' = null
            /\ selectedFile' = file
            /\ inputValue' = file
  /\ last' = ChooseEvent(file)
  /\ UNCHANGED <<state, handlers, issued, downloads>>

handleFileChange(file) ==
  /\ ChooseEnabled
  /\ successMessage' = null
  /\ IF file = null
       THEN /\ error' = null
            /\ selectedFile' = null
            /\ inputValue' = null
       ELSE IF ~HasSupportedExtension(file)
       THEN /\ error' = UploadError(MsgBadExtension)
            /\ inputValue' = null
            /\ UNCHANGED selectedFile
       ELSE IF ~WithinSizeLimit(file)
       THEN /\ error' = UploadError(MsgTooLarge)
            /\ inputValue' = null
            /\ UNCHANGED selectedFile
       ELSE /\ error' = null
            /\ selectedFile' = file
            /\ inputValue' = file
  /\ last' = ChooseEvent(file)
  /\ UNCHANGED <<state, handlers, issued, downloads>>

Choose ==
  /\ \E file \in Files \cup {null} : handleFileChange(file)
  /\ UNCHANGED trailVars

-----------------------------------------------------------------------------
(* Responses of the conversion endpoint, as the handler sees them *)

\* A header or a string that may be absent is null or [value |-> text].
Some(text) == [value |-> text]

ContentTypes ==
  { null,
    Some(<<"application/json">>),
    Some(<<"application/json", "; charset=utf-8">>),
    Some(<<"text/plain">>),
    Some(<<"application/problem+json">>) }

Dispositions ==
  { null,
    Some(<<"attachment">>),
    Some(<<"attachment; ", "filename=", "\"", "out.xlsx", "\"">>),
    Some(<<"attachment; ", "filename=", "out.xlsx">>),
    Some(<<"attachment; ", "filename=", "\"", "\"">>),
    Some(<<"attachment; ", "filename=", "\"", "a.xlsx", "\"", "; ", "filename=", "b.xlsx">>) }

ErrorStatuses == {422, 500}

Responses ==
  [ok : {TRUE}, status : {200}, contentType : {null}, disposition : Dispositions]
  \cup
  [ok : {FALSE}, status : ErrorStatuses, contentType : ContentTypes, disposition : {null}]

\* What fetch(), response.json(), response.text() and response.blob() reject with.
Thrown ==
  { [isError |-> TRUE,  message |-> <<"Failed to fetch">>],   \* TypeError
    [isError |-> TRUE,  message |-> << >>],                    \* an Error without text
    [isError |-> FALSE] }                                      \* a value that is no Error

ParseFailures == { [isError |-> TRUE, message |-> <<"Unexpected token < in JSON">>] }

\* Date.now()
Timestamps == {1000, 2000}

(* JSON values *)
JString(s) == [t |-> "string", v |-> s]
JNumber(n) == [t |-> "number", v |-> n]
JBool(b)   == [t |-> "boolean", v |-> b]
JNull      == [t |-> "null"]
JArray(a)  == [t |-> "array", v |-> a]
JObject    == [t |-> "object", has |-> FALSE]
JDetail(d) == [t |-> "object", has |-> TRUE, detail |-> d]

Texts == { << >>, <<" ">>, <<"bad taxonomy">>, <<" ", "internal error", "\n">> }

Scalars == {JString(s) : s \in Texts} \cup {JNumber(0), JNumber(7), JBool(FALSE), JBool(TRUE), JNull}

Details == Scalars \cup {JArray(<< >>), JArray(<<JString(<<"loc">>), JNumber(3)>>),
                         JObject, JDetail(JString(<<"msg">>))}

Payloads == Scalars \cup {JArray(<< >>), JObject} \cup {JDetail(d) : d \in Details}

\* JSON.stringify of a value that came out of response.json()
RECURSIVE JSONstringify(_)
RECURSIVE stringifyItems(_)
stringifyItems(a) ==
  IF a = << >> THEN << >>
  ELSE JSONstringify(Head(a)) \o
       (IF Tail(a) = << >> THEN << >> ELSE <<",">> \o stringifyItems(Tail(a)))

JSONstringify(j) ==
  CASE j.t = "string"  -> <<"\"">> \o j.v \o <<"\"">>
    [] j.t = "number"  -> <<ToString(j.v)>>
    [] j.t = "boolean" -> IF j.v THEN <<"true">> ELSE <<"false">>
    [] j.t = "null"    -> <<"null">>
    [] j.t = "array"   -> <<"[">> \o stringifyItems(j.v) \o <<"]">>
    [] j.t = "object"  -> IF j.has
                            THEN <<"{", "\"", "detail", "\"", ":">> \o JSONstringify(j.detail) \o <<"}">>
                            ELSE <<"{", "}">>

\* Variant: any detail that is defined counts.
Truthy_Defined(j) == TRUE

\* JavaScript truthiness of a JSON value
Truthy(j) ==
  CASE j.t = "string"  -> j.v # << >>
    [] j.t = "number"  -> j.v # 0
    [] j.t = "boolean" -> j.v
    [] j.t = "null"    -> FALSE
    [] OTHER           -> TRUE

\* payload?.detail : the detail member, or null (undefined) when there is none
detailOf(payload) ==
  IF payload.t = "object" /\ payload.has THEN Some(payload.detail) ELSE null

-----------------------------------------------------------------------------
(* Classification of a non-success response *)

genericMessage(status) ==
  <<"Failed to convert XBRL file (status ", ToString(status), ")">>

jsonMessage(payload, status) ==
  IF payload.t = "string" /\ trim(payload.v) # << >>
    THEN trim(payload.v)
  ELSE IF detailOf(payload) # null /\ Truthy(detailOf(payload).value)
    THEN IF detailOf(payload).value.t = "string"
           THEN detailOf(payload).value.v
           ELSE JSONstringify(detailOf(payload).value)
  ELSE genericMessage(status)

textMessage(text, status) ==
  IF trim(text) # << >> THEN trim(text) ELSE genericMessage(status)

\* uploadError instanceof Error ? uploadError.message : "Unexpected error occurred."
catchMessage(uploadError) ==
  IF uploadError.isError THEN uploadError.message ELSE MsgUnexpected

\* Variant: no inner try/catch, the parse failure reaches the outer catch.
parseFailureMessage_Propagated(parseError, status) == catchMessage(parseError)

\* catch (parseError) { console.warn(...) } : message keeps its initial value
parseFailureMessage(parseError, status) == genericMessage(status)


-----------------------------------------------------------------------------
(* The download name *)

FirstIndex(s, c) ==
  IF includes(s, c)
    THEN CHOOSE i \in DOMAIN s : s[i] = c /\ \A j \in 1..(i - 1) : s[j] # c
    ELSE 0

\* s.split(sep)[1]
splitSecond(s, sep) ==
  LET i == FirstIndex(s, sep) IN
  IF i = 0 THEN null
  ELSE LET rest == SubSeq(s, i + 1, Len(s))
           j    == FirstIndex(rest, sep)
       IN  Some(IF j = 0 THEN rest ELSE SubSeq(rest, 1, j - 1))

IsNotQuote(c) == c # "\""

\* .replace(/"/g, "")
removeQuotes(s) == SelectSeq(s, IsNotQuote)

\* response.headers.get("Content-Disposition")?.split("filename=")[1]?.replace(/"/g, "")
dispositionFilename(header) ==
  IF header = null THEN null
  ELSE IF splitSecond(header.value, "filename=") = null THEN null
  ELSE Some(removeQuotes(splitSecond(header.value, "filename=").value))

\* filename || `xbrl-export-${Date.now()}.xlsx`
downloadName(header, now) ==
  LET filename == dispositionFilename(header) IN
  IF filename # null /\ filename.value # << >>
    THEN filename.value
    ELSE <<"xbrl-export-", ToString(now), ".xlsx">>

-----------------------------------------------------------------------------
(* handleSubmit *)

\* Variant: the button is never disabled.
SubmitEnabled_Always == TRUE

\* <button type="submit" disabled={state === "uploading"}>
SubmitEnabled == state # "uploading"

NewHandler(file, id) == [id |-> id, file |-> file, pc |-> "fetch", response |-> null]

\* Variant: setState("uploading") comes before the check of selectedFile.
handleSubmit_UploadingFirst ==
  /\ SubmitEnabled
  /\ successMessage' = null
  /\ state' = "uploading"
  /\ IF selectedFile = null
       THEN /\ error' = UploadError(MsgNoFile)
            /\ UNCHANGED <<handlers, issued>>
       ELSE /\ issued < MaxRequests
            /\ error' = null
            /\ issued' = issued + 1
            /\ handlers' = Append(handlers, NewHandler(selectedFile, issued + 1))
  /\ last' = [op |-> "submit", prev |-> last.op, before |-> state]
  /\ UNCHANGED <<selectedFile, inputValue, downloads>>

\* Variant: the success message is not cleared.
handleSubmit_KeepsSuccess ==
  /\ SubmitEnabled
  /\ IF selectedFile = null
       THEN /\ error' = UploadError(MsgNoFile)
            /\ UNCHANGED <<state, handlers, issued>>
       ELSE /\ issued < MaxRequests
            /\ error' = null
            /\ state' = "uploading"
            /\ issued' = issued + 1
            /\ handlers' = Append(handlers, NewHandler(selectedFile, issued + 1))
  /\ last' = [op |-> "submit", prev |-> last.op, before |-> state]
  /\ UNCHANGED <<selectedFile, successMessage, inputValue, downloads>>

\* The synchronous part, up to await fetch(...)
handleSubmit ==
  /\ SubmitEnabled
  /\ successMessage' = null
  /\ IF selectedFile = null
       THEN /\ error' = UploadError(MsgNoFile)
            /\ UNCHANGED <<state, handlers, issued>>
       ELSE /\ issued < MaxRequests
            /\ error' = null
            /\ state' = "uploading"
            /\ issued' = issued + 1
            /\ handlers' = Append(handlers, NewHandler(selectedFile, issued + 1))
  /\ last' = [op |-> "submit", prev |-> last.op, before |-> state]
  /\ UNCHANGED <<selectedFile, inputValue, downloads>>

RemoveAt(s, i) == SubSeq(s, 1, i - 1) \o SubSeq(s, i + 1, Len(s))

\* Variant: the catch block also drops the selection.
catchBlock_ClearsFile(i, uploadError) ==
  /\ error' = UploadError(catchMessage(uploadError))
  /\ state' = "error"
  /\ handlers' = RemoveAt(handlers, i)
  /\ selectedFile' = null
  /\ UNCHANGED <<successMessage, inputValue, issued, downloads>>

\* Variant: the catch block does not set the state.
catchBlock_StaysUploading(i, uploadError) ==
  /\ error' = UploadError(catchMessage(uploadError))
  /\ handlers' = RemoveAt(handlers, i)
  /\ UNCHANGED <<state, selectedFile, successMessage, inputValue, issued, downloads>>

\* The catch block of handleSubmit, ending invocation i
catchBlock(i, uploadError) ==
  /\ error' = UploadError(catchMessage(uploadError))
  /\ state' = "error"
  /\ handlers' = RemoveAt(handlers, i)
  /\ UNCHANGED <<selectedFile, successMessage, inputValue, issued, downloads>>

\* throw new Error(message), caught by the catch block
throwMessage(i, message) == catchBlock(i, [isError |-> TRUE, message |-> message])

\* fetch() rejects with e
FetchReject(i, e) ==
  /\ handlers[i].pc = "fetch"
  /\ catchBlock(i, e)
  /\ last' = [op |-> "fetchReject", req |-> handlers[i].id, file |-> handlers[i].file,
              thrown |-> e]

\* fetch() resolves with response: the continuation runs to the next await
FetchResolve(i, response) ==
  /\ handlers[i].pc = "fetch"
  /\ LET contentType == IF response.contentType = null THEN << >>
                        ELSE response.contentType.value
         next == IF response.ok THEN "blob"
                 ELSE IF includes(contentType, "application/json") THEN "json"
                 ELSE "text"
     IN  handlers' = [handlers EXCEPT ![i].pc = next, ![i].response = response]
  /\ last' = [op |-> "fetchResolve", req |-> handlers[i].id, response |-> response]
  /\ UNCHANGED <<selectedFile, state, error, successMessage, inputValue, issued, downloads>>

\* response.json() resolves with payload
JsonResolve(i, payload) ==
  /\ handlers[i].pc = "json"
  /\ throwMessage(i, jsonMessage(payload, handlers[i].response.status))
  /\ last' = [op |-> "json", req |-> handlers[i].id, file |-> handlers[i].file,
              status |-> handlers[i].response.status, payload |-> payload]

\* response.text() resolves with text
TextResolve(i, text) ==
  /\ handlers[i].pc = "text"
  /\ throwMessage(i, textMessage(text, handlers[i].response.status))
  /\ last' = [op |-> "text", req |-> handlers[i].id, file |-> handlers[i].file,
              status |-> handlers[i].response.status, text |-> text]

\* response.json() or response.text() rejects with parseError
BodyReject(i, parseError) ==
  /\ handlers[i].pc \in {"json", "text"}
  /\ throwMessage(i, parseFailureMessage(parseError, handlers[i].response.status))
  /\ last' = [op |-> "bodyReject", req |-> handlers[i].id, file |-> handlers[i].file,
              status |-> handlers[i].response.status, thrown |-> parseError]

\* Variant: the anchor is never clicked.
BlobResolve_NoDownload(i, now) ==
  /\ handlers[i].pc = "blob"
  /\ successMessage' = Some(MsgSuccess)
  /\ state' = "success"
  /\ handlers' = RemoveAt(handlers, i)
  /\ last' = [op |-> "blob", req |-> handlers[i].id, file |-> handlers[i].file,
              disposition |-> handlers[i].response.disposition, now |-> now]
  /\ UNCHANGED <<selectedFile, error, inputValue, issued, downloads>>

\* response.blob() resolves: anchor.download = ...; anchor.click(); then success
BlobResolve(i, now) ==
  /\ handlers[i].pc = "blob"
  /\ downloads' = Append(downloads,
                         [req |-> handlers[i].id,
                          name |-> downloadName(handlers[i].response.disposition, now)])
  /\ successMessage' = Some(MsgSuccess)
  /\ state' = "success"
  /\ handlers' = RemoveAt(handlers, i)
  /\ last' = [op |-> "blob", req |-> handlers[i].id, file |-> handlers[i].file,
              disposition |-> handlers[i].response.disposition, now |-> now]
  /\ UNCHANGED <<selectedFile, error, inputValue, issued>>

\* response.blob() rejects with e
BlobReject(i, e) ==
  /\ handlers[i].pc = "blob"
  /\ catchBlock(i, e)
  /\ last' = [op |-> "blobReject", req |-> handlers[i].id, file |-> handlers[i].file,
              thrown |-> e]

-----------------------------------------------------------------------------
(* The cursor trail *)

\* n / den rounded to the nearest integer
Round(n, den) == (2 * n + den) \div (2 * den)

\* d * (percent / 100)
Eased(d, percent) == Round(d * percent, 100)

Max(a, b) == IF a >= b THEN a ELSE b

\* pageRef.current.getBoundingClientRect()
Rects ==
  { [left |-> 0, top |-> 0, width |-> 40000, height |-> 30000],
    [left |-> 2000, top |-> 4000, width |-> 40000, height |-> 30000] }

\* event.clientX, event.clientY
PointerEvents == { [clientX |-> 12000, clientY |-> 4000], [clientX |-> 2000, clientY |-> 4000] }

ZeroPoint == [x |-> 0, y |-> 0, opacity |-> 0]

\* Array.from({ length: TRAIL_LENGTH }, () => ({ x: 0, y: 0, opacity: 0 }))
InitialTrail == [i \in 1..TRAIL_LENGTH |-> ZeroPoint]

\* The first effect: the target starts at the centre of the page
CenterTarget(rect) == [x |-> rect.width \div 2, y |-> rect.height \div 2, active |-> FALSE]

\* index === 0 ? 0.2 : 0.24, in percent (index counts from 1 here)
EasePercent_Overshoot(index) == IF index = 1 THEN 120 ELSE 124

EasePercent(index) == IF index = 1 THEN 20 ELSE 24

\* Variant: the falloff is the target whether the pointer is active or not.
opacityTarget_AlwaysActive(index, active) == Max(0, 8500 - (index - 1) * 1300)

\* trailTargetRef.current.active ? Math.max(0, 0.85 - index * 0.13) : 0
opacityTarget(index, active) ==
  IF active THEN Max(0, 8500 - (index - 1) * 1300) ELSE 0

\* One pass of the loop body: the new point of index, given its lead
movePoint(point, index, leadX, leadY, active) ==
  [x       |-> point.x + Eased(leadX - point.x, EasePercent(index)),
   y       |-> point.y + Eased(leadY - point.y, EasePercent(index)),
   opacity |-> point.opacity + Eased(opacityTarget(index, active) - point.opacity, 18)]

\* Variant: the lead of the next element is the point before this step.
leadAfter_Old(prev, next, index) == prev[index]

\* leadX = x; leadY = y
leadAfter(prev, next, index) == next[index]

\* for (let index = 0; index < TRAIL_LENGTH; index++) { ... }
RECURSIVE animateLoop(_, _, _, _, _, _)
animateLoop(prev, next, index, leadX, leadY, active) ==
  IF index > TRAIL_LENGTH THEN next
  ELSE LET moved == [next EXCEPT ![index] = movePoint(prev[index], index, leadX, leadY, active)]
           lead  == leadAfter(prev, moved, index)
       IN  animateLoop(prev, moved, index + 1, lead.x, lead.y, active)

\* The updater given to setTrail
nextTrail(prev, target) == animateLoop(prev, prev, 1, target.x, target.y, target.active)

\* Variant: the new frame request is not kept in animationRef.
animate_RefNotKept(id) ==
  /\ id \in pendingFrames
  /\ frameCount < MaxFrames
  /\ trail' = nextTrail(trail, trailTarget)
  /\ frameCount' = frameCount + 1
  /\ pendingFrames' = (pendingFrames \ {id}) \cup {frameCount + 1}
  /\ lastFrame' = [before |-> trail, target |-> trailTarget, mounted |-> mounted,
                   stationary |-> (lastFrame.target.x = trailTarget.x
                                   /\ lastFrame.target.y = trailTarget.y)]
  /\ UNCHANGED <<mounted, trailTarget, animationRef>>

\* The frame callback: setTrail(...), then the next frame is requested
animate(id) ==
  /\ id \in pendingFrames
  /\ frameCount < MaxFrames
  /\ trail' = nextTrail(trail, trailTarget)
  /\ frameCount' = frameCount + 1
  /\ animationRef' = frameCount + 1
  /\ pendingFrames' = (pendingFrames \ {id}) \cup {frameCount + 1}
  /\ lastFrame' = [before |-> trail, target |-> trailTarget, mounted |-> mounted,
                   stationary |-> (lastFrame.target.x = trailTarget.x
                                   /\ lastFrame.target.y = trailTarget.y)]
  /\ UNCHANGED <<mounted, trailTarget>>

\* The cleanup of the second effect
unmount ==
  /\ mounted
  /\ mounted' = FALSE
  /\ pendingFrames' = IF animationRef # 0 THEN pendingFrames \ {animationRef}
                      ELSE pendingFrames
  /\ UNCHANGED <<trailTarget, animationRef, frameCount, trail, lastFrame>>

\* Also what handlePointerDown does, and what onPointerEnter is bound to
handlePointerMove(event, rect) ==
  /\ mounted
  /\ trailTarget' = [x |-> event.clientX - rect.left, y |-> event.clientY - rect.top,
                     active |-> TRUE]
  /\ UNCHANGED <<mounted, animationRef, pendingFrames, frameCount, trail, lastFrame>>

handlePointerLeave ==
  /\ mounted
  /\ trailTarget' = [trailTarget EXCEPT !.active = FALSE]
  /\ UNCHANGED <<mounted, animationRef, pendingFrames, frameCount, trail, lastFrame>>

-----------------------------------------------------------------------------
\* The state once the component is mounted and its two effects have run
Init ==
  /\ selectedFile = null
  /\ state = "idle"
  /\ error = null
  /\ successMessage = null
  /\ inputValue = null
  /\ handlers = << >>
  /\ issued = 0
  /\ downloads = << >>
  /\ last = [op |-> "init"]
  /\ mounted = TRUE
  /\ \E rect \in Rects : trailTarget = CenterTarget(rect)
  /\ animationRef = 1
  /\ pendingFrames = {1}
  /\ frameCount = 1
  /\ trail = InitialTrail
  /\ lastFrame = [before |-> InitialTrail, target |-> trailTarget, mounted |-> TRUE,
                  stationary |-> TRUE, none |-> TRUE]

Submit == handleSubmit /\ UNCHANGED trailVars

\* A pending promise of a handleSubmit invocation settles
Settle ==
  /\ \/ \E i \in DOMAIN handlers : \E e \in Thrown : FetchReject(i, e)
     \/ \E i \in DOMAIN handlers : \E response \in Responses : FetchResolve(i, response)
     \/ \E i \in DOMAIN handlers : \E payload \in Payloads : JsonResolve(i, payload)
     \/ \E i \in DOMAIN handlers : \E text \in Texts : TextResolve(i, text)
     \/ \E i \in DOMAIN handlers : \E e \in ParseFailures \cup Thrown : BodyReject(i, e)
     \/ \E i \in DOMAIN handlers : \E now \in Timestamps : BlobResolve(i, now)
     \/ \E i \in DOMAIN handlers : \E e \in Thrown : BlobReject(i, e)
  /\ UNCHANGED trailVars

Next ==
  \/ Choose
  \/ Submit
  \/ Settle

Frame == (\E id \in pendingFrames : animate(id)) /\ UNCHANGED uploadVars

Unmount == unmount /\ UNCHANGED uploadVars

PointerMove ==
  /\ \E event \in PointerEvents : \E rect \in Rects : handlePointerMove(event, rect)
  /\ UNCHANGED uploadVars

PointerLeave == handlePointerLeave /\ UNCHANGED uploadVars

TrailNext ==
  \/ Frame
  \/ Unmount
  \/ PointerMove
  \/ PointerLeave

Spec == Init /\ [][Next]_vars

\* Every promise the handler awaits settles: fetch(), then the body.
LiveSpec == Spec /\ WF_vars(Settle)

\* The cursor trail alone: the form is left untouched.
TrailSpec == Init /\ [][TrailNext]_vars

-----------------------------------------------------------------------------
(* Claims *)

\* The events that end a handleSubmit invocation in the catch block
FailureOps == {"fetchReject", "json", "text", "bodyReject", "blobReject"}

\* C1: submit() with no SelectedFile sets the error to the fixed missing-file
\* message, issues no request and leaves UploadState as it was before
\* (never uploading), whatever that state was.
C1_SubmitWithoutFile ==
  (last.op = "submit" /\ selectedFile = null) =>
    /\ error = UploadError(<<"Please choose an XBRL file before uploading.">>)
    /\ handlers = << >>
    /\ state = last.before
    /\ state # "uploading"

C1_Witness ==
  /\ last.op = "submit"
  /\ selectedFile = null
  /\ state = "success"
  /\ issued = 1
  /\ error # null

\* C2: at most one conversion request is in flight at any time, and a submit
\* that issued a request was never delivered while UploadState was uploading.
C2_AtMostOneInFlight ==
  /\ Len(handlers) <= 1
  /\ (last.op = "submit" /\ handlers # << >>) => last.before # "uploading"

C2_Witness ==
  /\ state = "uploading"
  /\ Len(handlers) = 1
  /\ issued = 2
  /\ last.op = "fetchResolve"

\* C3: after a choose() that was rejected, SelectedFile is unset.
C3_RejectedChoiceClearsSelection ==
  (last.op = "choose" /\ error # null) => selectedFile = null

C4_IsXmlOrXbrl(name) ==
  LET n == Len(name) IN
  \/ /\ n >= 4
     /\ name[n - 3] = "."
     /\ name[n - 2] \in {"x", "X"}
     /\ name[n - 1] \in {"m", "M"}
     /\ name[n] \in {"l", "L"}
  \/ /\ n >= 5
     /\ name[n - 4] = "."
     /\ name[n - 3] \in {"x", "X"}
     /\ name[n - 2] \in {"b", "B"}
     /\ name[n - 1] \in {"r", "R"}
     /\ name[n] \in {"l", "L"}

\* C4: choose(file) accepts a present file (SelectedFile becomes it, no error)
\* exactly when its name ends, in any letter case, with .xml or .xbrl and its
\* size is at most 15 x 1024 x 1024 bytes; a bad extension gives the fixed
\* extension error whatever the size; an absent file clears SelectedFile
\* with no error.
C4_ChooseAccepts ==
  last.op = "choose" =>
    IF last.file = null
      THEN selectedFile = null /\ error = null
      ELSE /\ (selectedFile = last.file /\ error = null) <=>
                (C4_IsXmlOrXbrl(last.file.name) /\ last.file.size <= 15 * 1024 * 1024)
           /\ ~C4_IsXmlOrXbrl(last.file.name) =>
                error = UploadError(<<"Only .xml or .xbrl files are supported.">>)

C4_Witness ==
  /\ last.op = "choose"
  /\ selectedFile = [name |-> <<"report", ".", "X", "B", "R", "L">>, size |-> 15728640]
  /\ error = null

C5_Blank(c) == c \in {" ", "\n"}

\* t is s without its leading and trailing blanks
C5_IsTrimOf(t, s) ==
  \E a \in 0..Len(s) : \E b \in 0..(Len(s) - a) :
    /\ t = SubSeq(s, a + 1, Len(s) - b)
    /\ \A k \in 1..a : C5_Blank(s[k])
    /\ \A k \in (Len(s) - b + 1)..Len(s) : C5_Blank(s[k])
    /\ t # << >> => (~C5_Blank(t[1]) /\ ~C5_Blank(t[Len(t)]))

C5_Trimmed(s) ==
  CHOOSE t \in {SubSeq(s, a, b) : a \in 1..(Len(s) + 1), b \in 0..Len(s)} : C5_IsTrimOf(t, s)

C5_Generic(status) == <<"Failed to convert XBRL file (status ", ToString(status), ")">>

C5_HasDetail(payload) == payload.t = "object" /\ payload.has

\* The classification of a JSON payload as the claim words it
C5_Claimed(payload, status) ==
  IF payload.t = "string" THEN C5_Trimmed(payload.v)
  ELSE IF C5_HasDetail(payload) /\ payload.detail.t = "string" THEN payload.detail.v
  ELSE IF C5_HasDetail(payload) THEN JSONstringify(payload.detail)
  ELSE C5_Generic(status)

C5_Falsy == {JString(<< >>), JNumber(0), JBool(FALSE), JNull}

\* The classification with blank strings and falsy details sent to the generic message
C5_ClaimedAmended(payload, status) ==
  IF payload.t = "string" /\ C5_Trimmed(payload.v) # << >> THEN C5_Trimmed(payload.v)
  ELSE IF C5_HasDetail(payload) /\ payload.detail \notin C5_Falsy
    THEN IF payload.detail.t = "string" THEN payload.detail.v
         ELSE JSONstringify(payload.detail)
  ELSE C5_Generic(status)

C5_ClaimedText(text, status) ==
  IF C5_Trimmed(text) # << >> THEN C5_Trimmed(text) ELSE C5_Generic(status)

\* C5 as stated: a JSON payload that is a string gives its trimmed text, else
\* a string detail gives that detail, else a detail that exists gives its
\* serialization (0, false, null and the empty string included), else the
\* generic message; a non-JSON body gives its trimmed text, or the generic
\* message when that is empty. UploadState becomes error with the message.
C5_Classification ==
  /\ last.op = "json" =>
       state = "error" /\ error = UploadError(C5_Claimed(last.payload, last.status))
  /\ last.op = "text" =>
       state = "error" /\ error = UploadError(C5_ClaimedText(last.text, last.status))

\* C5 amended: as C5, but a string payload that is blank, a detail that is
\* the empty string, 0, false or null, and a missing detail all give the
\* generic message.
C5_ClassificationAmended ==
  /\ last.op = "json" =>
       state = "error" /\ error = UploadError(C5_ClaimedAmended(last.payload, last.status))
  /\ last.op = "text" =>
       state = "error" /\ error = UploadError(C5_ClaimedText(last.text, last.status))

C5_Witness ==
  /\ last.op = "json"
  /\ last.payload = JDetail(JNumber(0))
  /\ state = "error"
  /\ error = UploadError(C5_Generic(422))

\* C6: when reading or parsing the body of a non-success response fails, the
\* error message is the generic one for the response's status, UploadState
\* is error and the invocation has ended; the failure's own message is not
\* shown.
C6_ParseFailureSwallowed ==
  last.op = "bodyReject" =>
    /\ state = "error"
    /\ error = UploadError(C5_Generic(last.status))
    /\ \A i \in DOMAIN handlers : handlers[i].id # last.req
    /\ last.thrown.isError => error.message # last.thrown.message

C6_Witness ==
  /\ last.op = "bodyReject"
  /\ last.thrown = [isError |-> TRUE, message |-> <<"Unexpected token < in JSON">>]
  /\ last.status = 500
  /\ state = "error"

C7_IsNotQuote(c) == c # "\""

\* The name the claim gives the download
C7_Name(disposition, now) ==
  LET h      == IF disposition = null THEN << >> ELSE disposition.value
      starts == {k \in DOMAIN h : h[k] = "filename="}
      synth  == <<"xbrl-export-", ToString(now), ".xlsx">>
  IN  IF starts = {} THEN synth
      ELSE LET first == CHOOSE k \in starts : \A m \in starts : k <= m
               later == {k \in starts : k > first}
               stop  == IF later = {} THEN Len(h) + 1
                        ELSE CHOOSE k \in later : \A m \in later : k <= m
               frag  == SelectSeq(SubSeq(h, first + 1, stop - 1), C7_IsNotQuote)
           IN  IF frag = << >> THEN synth ELSE frag

C7_DownloadsOf(r) == {k \in DOMAIN downloads : downloads[k].req = r}

\* C7: a request triggers at most one download; when the payload of a success
\* response has been read, exactly one download of it has been triggered,
\* named by the filename= fragment of Content-Disposition without quotes or,
\* when there is none, xbrl-export-<timestamp>.xlsx, and UploadState is
\* success with the fixed confirmation; UploadState is success only for a
\* request whose download was triggered.
C7_DownloadThenSuccess ==
  /\ \A r \in 1..issued : Cardinality(C7_DownloadsOf(r)) <= 1
  /\ last.op = "blob" =>
       /\ Cardinality(C7_DownloadsOf(last.req)) = 1
       /\ downloads[Len(downloads)] =
            [req |-> last.req, name |-> C7_Name(last.disposition, last.now)]
       /\ state = "success"
       /\ successMessage = Some(<<"Excel workbook downloaded successfully.">>)
  /\ state = "success" => C7_DownloadsOf(issued) # {}

C7_Witness ==
  /\ last.op = "blob"
  /\ last.disposition = Some(<<"attachment; ", "filename=", "\"", "out.xlsx", "\"">>)
  /\ downloads = <<[req |-> 1, name |-> <<"out.xlsx">>]>>
  /\ state = "success"

\* C8: a transport failure moves UploadState to error with the failure's
\* message, or with a non-empty fallback message when the failure carries no
\* message (an Error whose message is empty included).
C8_TransportFailureMessage ==
  last.op \in {"fetchReject", "blobReject"} =>
    /\ state = "error"
    /\ error # null
    /\ IF last.thrown.isError /\ last.thrown.message # << >>
         THEN error.message = last.thrown.message
         ELSE error.message # << >>

\* C9: submit() never changes SelectedFile: a request in flight carries the
\* SelectedFile, after a request has ended (in error or in success)
\* SelectedFile is the file that was submitted, and a submit() with a
\* SelectedFile issues a new request with it.
C9_SubmitKeepsSelectedFile ==
  /\ \A i \in DOMAIN handlers : handlers[i].file = selectedFile
  /\ last.op \in FailureOps \cup {"blob"} => selectedFile = last.file
  /\ (last.op = "submit" /\ selectedFile # null) =>
       /\ handlers # << >>
       /\ handlers[Len(handlers)] = NewHandler(selectedFile, issued)

C9_Witness ==
  /\ last.op = "submit"
  /\ last.prev \in FailureOps
  /\ issued = 2
  /\ Len(handlers) = 1
  /\ handlers[1].file = selectedFile

\* C10 as stated: whenever a failure path has left its error message,
\* UploadState is error and the controller accepts another submit().
C10_EveryFailureLeavesError ==
  error # null => (state = "error" /\ handlers = << >>)

\* C10 amended: a non-success response, a transport failure and an error-body
\* parsing failure leave UploadState equal to error; a rejected choose() and
\* a submit() with no selection leave their error message and UploadState as
\* it was before; after each of them no request is in flight and the
\* controller accepts another submit().
C10_FailurePaths ==
  /\ last.op \in FailureOps => (state = "error" /\ error # null)
  /\ (last.op = "choose" /\ last.file # null /\ selectedFile # last.file) =>
       (error # null /\ state = last.before)
  /\ (last.op = "submit" /\ selectedFile = null) =>
       (error # null /\ state = last.before)
  /\ error # null => (state # "uploading" /\ handlers = << >>)

C10_Witness ==
  /\ last.op = "choose"
  /\ last.file = [name |-> <<"report", ".", "p", "d", "f">>, size |-> 1]
  /\ error # null
  /\ state = "success"

\* C11: UploadState changes only along idle -> uploading, uploading ->
\* success, uploading -> error, success -> uploading and error -> uploading;
\* in particular success and error are entered from uploading alone and no
\* step returns to idle.
C11_Transitions ==
  [][ state' # state =>
        <<state, state'>> \in { <<"idle", "uploading">>, <<"uploading", "success">>,
                               <<"uploading", "error">>, <<"success", "uploading">>,
                               <<"error", "uploading">> } ]_vars

C11_Witness ==
  /\ last.op = "submit"
  /\ last.before = "success"
  /\ state = "uploading"

C12_AcceptedAfterUpload ==
  /\ last.op = "choose"
  /\ last.before \in {"success", "error"}
  /\ last.file # null
  /\ selectedFile = last.file
  /\ error = null

\* C12 as stated: a choose() with a valid file delivered in success or error
\* returns UploadState to uploading.
C12_ChooseReturnsToUploading ==
  C12_AcceptedAfterUpload => state = "uploading"

\* C12 amended: a choose() with a valid file delivered in success or error
\* leaves UploadState as it was, with no request issued; a submit() with a
\* SelectedFile is what returns UploadState to uploading.
C12_ChooseKeepsState ==
  /\ C12_AcceptedAfterUpload =>
       (state = last.before /\ handlers = << >> /\ successMessage = null)
  /\ (last.op = "submit" /\ selectedFile # null) => state = "uploading"

C12_Witness ==
  /\ C12_AcceptedAfterUpload
  /\ last.before = "success"
  /\ state = "success"

\* C13: while the component is mounted the only pending frame request is the
\* one animationRef names; the cleanup cancels it, so that once the component
\* is unmounted no frame request is pending and no run of animate, hence no
\* write of the trail, has happened after the unmount.
C13_NoFrameAfterUnmount ==
  /\ mounted => (animationRef # 0 /\ pendingFrames = {animationRef})
  /\ ~mounted => pendingFrames = {}
  /\ lastFrame.mounted

C13_Witness ==
  /\ ~mounted
  /\ frameCount >= 3
  /\ animationRef = frameCount
  /\ pendingFrames = {}

\* The positions C14 describes: element i eases towards its lead, the target
\* for the first element and the new position of element i - 1 for the others.
C14_New(old, target) ==
  LET new[i \in 1..6] ==
        LET leadX == IF i = 1 THEN target.x ELSE new[i - 1].x
            leadY == IF i = 1 THEN target.y ELSE new[i - 1].y
            ease  == IF i = 1 THEN 20 ELSE 24
        IN  [x |-> old[i].x + Eased(leadX - old[i].x, ease),
             y |-> old[i].y + Eased(leadY - old[i].y, ease)]
  IN  new

\* C14: a step of the animation leaves every element i at old_i + (lead_i -
\* old_i) * ease_i, with ease 0.20 for the first element and 0.24 for the
\* others, the lead of the first element being the pointer target and the lead
\* of any other the position of its predecessor computed in the same step.
C14_EasingStep ==
  frameCount > 1 =>
    \A i \in 1..6 :
      /\ trail[i].x = C14_New(lastFrame.before, lastFrame.target)[i].x
      /\ trail[i].y = C14_New(lastFrame.before, lastFrame.target)[i].y

C14_Witness ==
  /\ frameCount > 2
  /\ trail[1].x # lastFrame.before[1].x
  /\ trail[6].x # lastFrame.before[6].x
  /\ trail[6].y # lastFrame.before[6].y

C15_Between(a, b, c) == (a <= b /\ b <= c) \/ (c <= b /\ b <= a)

C15_Lead(i) == IF i = 1 THEN lastFrame.target ELSE trail[i - 1]

C15_Dist2(p, q) == (p.x - q.x) * (p.x - q.x) + (p.y - q.y) * (p.y - q.y)

C15_NoOvershoot ==
  frameCount > 1 =>
    \A i \in 1..6 :
      /\ C15_Between(lastFrame.before[i].x, trail[i].x, C15_Lead(i).x)
      /\ C15_Between(lastFrame.before[i].y, trail[i].y, C15_Lead(i).y)

\* The frame read the target position the frame before it read
C15_Stationary == frameCount > 1 /\ lastFrame.stationary

\* C15 as stated: after a step every new coordinate lies between the old
\* coordinate and the coordinate of the lead, and when the target has not
\* moved no element is farther from the target than it was before the step.
C15_NoOvershootAllApproach ==
  /\ C15_NoOvershoot
  /\ C15_Stationary =>
       \A i \in 1..6 : C15_Dist2(trail[i], lastFrame.target)
                         <= C15_Dist2(lastFrame.before[i], lastFrame.target)

\* C15 amended: after a step every new coordinate lies between the old
\* coordinate and the coordinate of the lead, and when the target has not
\* moved the first element is no farther from the target than it was before
\* the step.
C15_NoOvershootHeadApproaches ==
  /\ C15_NoOvershoot
  /\ C15_Stationary =>
       C15_Dist2(trail[1], lastFrame.target)
         <= C15_Dist2(lastFrame.before[1], lastFrame.target)

C15_Witness ==
  /\ C15_Stationary
  /\ frameCount > 2
  /\ trail[1] # lastFrame.before[1]
  /\ \E i \in 2..6 : C15_Dist2(trail[i], lastFrame.target)
                       > C15_Dist2(lastFrame.before[i], lastFrame.target)

C16_Target(i) == IF lastFrame.target.active THEN Max(0, 8500 - 1300 * (i - 1)) ELSE 0

\* C16: every opacity is within [0, 1] in every state; a step moves the
\* opacity of element i by 0.18 of its gap to max(0, 0.85 - 0.13 i) when the
\* pointer is active and to 0 when it is not; a step taken while the pointer
\* is inactive raises no opacity and leaves at most 0.82 of each.
C16_Opacity ==
  /\ \A i \in 1..6 : trail[i].opacity >= 0 /\ trail[i].opacity <= 10000
  /\ frameCount > 1 =>
       \A i \in 1..6 :
         trail[i].opacity = lastFrame.before[i].opacity
                            + Eased(C16_Target(i) - lastFrame.before[i].opacity, 18)
  /\ (frameCount > 1 /\ ~lastFrame.target.active) =>
       \A i \in 1..6 :
         /\ trail[i].opacity <= lastFrame.before[i].opacity
         /\ 100 * trail[i].opacity <= 82 * lastFrame.before[i].opacity + 50

C16_Witness ==
  /\ frameCount > 2
  /\ ~lastFrame.target.active
  /\ \A i \in 1..6 : /\ lastFrame.before[i].opacity > 0
                     /\ trail[i].opacity < lastFrame.before[i].opacity
                     /\ trail[i].opacity > 0

C17_Controller == <<selectedFile, state, error, successMessage, inputValue,
                    handlers, issued, downloads>>

\* C17: a choose(f) that directly follows an accepted choose(f) of the same
\* valid file changes nothing: SelectedFile is f, no error and no success
\* message, UploadState as it was.
C17_ChooseIdempotent ==
  [][ ( /\ last.op = "choose" /\ last.file # null
        /\ selectedFile = last.file /\ error = null
        /\ last'.op = "choose" /\ last'.file = last.file ) =>
      ( /\ C17_Controller' = C17_Controller
        /\ selectedFile' = last.file /\ error' = null /\ successMessage' = null ) ]_vars

C17_Witness ==
  /\ last.op = "choose"
  /\ last.repeat
  /\ last.file # null
  /\ selectedFile = last.file
  /\ error = null
  /\ state = "error"

\* C18: an invocation that has ended never leaves UploadState at uploading,
\* and, the awaited promises settling, uploading leads to success or error.
C18_UploadTerminates ==
  /\ [](handlers = << >> => state # "uploading")
  /\ (state = "uploading") ~> (state \in {"success", "error"})

C18_Witness ==
  /\ last.op = "blobReject"
  /\ state = "error"
  /\ handlers = << >>
  /\ issued = 1

C19_Validated(file) ==
  C4_IsXmlOrXbrl(file.name) /\ file.size <= 15 * 1024 * 1024

\* C19: SelectedFile, when present, and the file of every request have a
\* .xml/.xbrl name and at most 15 MiB; after a choose() and after a submit()
\* without a selection no request is in flight.
C19_OnlyValidatedFiles ==
  /\ selectedFile # null => C19_Validated(selectedFile)
  /\ \A i \in DOMAIN handlers : C19_Validated(handlers[i].file)
  /\ last.op = "choose" => handlers = << >>
  /\ (last.op = "submit" /\ selectedFile = null) => handlers = << >>

C19_Witness ==
  /\ Len(handlers) = 1
  /\ handlers[1].pc = "fetch"
  /\ handlers[1].file = [name |-> <<"report", ".", "x", "M", "l">>, size |-> 15728640]

\* C20: the error and the success message are never both present; a success
\* message is present only in success; in uploading neither is present.
C20_Messages ==
  /\ ~(error # null /\ successMessage # null)
  /\ successMessage # null => state = "success"
  /\ state = "uploading" => (error = null /\ successMessage = null)

C20_Witness ==
  /\ last.op = "blob"
  /\ last.req = 2
  /\ successMessage # null
  /\ error = null
  /\ state = "success"
====
